---- MODULE Spec2Model ----
(***************************************************************************)
(* DevReplicator: stack detection (detectors.py), image-tag derivation and *)
(* the CLI pipeline (replicator.py, executor.py).                          *)
(*                                                                         *)
(* Text is modelled as a sequence of one-character strings, so that the    *)
(* string operations of the source (rstrip, split, re.sub, lower, strip,   *)
(* slicing) are computed character by character.                           *)
(***************************************************************************)
EXTENDS Integers, Sequences, FiniteSets, TLC

VARIABLES
    url,          \* the repository URL typed at the prompt (<<>> before)
    image_tag,    \* _slugify(url) (<<>> before)
    retag,        \* _slugify(image_tag) (<<>> before)
    tree,         \* content of the repository directory given to detect_project
    info,         \* the ProjectInfo in hand (NoInfo before)
    py_files,     \* the files handed to _scan_python_imports
    found,        \* the set _scan_python_imports returns ({} before)
    pc,           \* position of the program
    steps,        \* pipeline steps started so far, in order
    failed,       \* pipeline steps whose external process failed
    run_args,     \* port_mapping and detach collected for run_container
    exit_status,  \* process exit status, meaningful once pc = "exited"
    diagnostic    \* what the run printed last about its end

slugVars   == <<url, image_tag, retag>>
detectVars == <<tree, info>>
scanVars   == <<py_files, found>>
cliVars    == <<pc, steps, failed, run_args, exit_status, diagnostic>>
vars       == <<url, image_tag, retag, tree, info, py_files, found,
                pc, steps, failed, run_args, exit_status, diagnostic>>

None == "None"

\* nothing collected for run_container yet
NoArgs == [port_mapping |-> <<>>, detach |-> TRUE]

-----------------------------------------------------------------------------
(* Characters and generic string helpers                                   *)

LowerCase == <<"a","b","c","d","e","f","g","h","i","j","k","l","m",
               "n","o","p","q","r","s","t","u","v","w","x","y","z">>
UpperCase == <<"A","B","C","D","E","F","G","H","I","J","K","L","M",
               "N","O","P","Q","R","S","T","U","V","W","X","Y","Z">>
Digits    == {"0","1","2","3","4","5","6","7","8","9"}

Range(s) == {s[i] : i \in DOMAIN s}

\* the character class [a-zA-Z0-9._-] of the regular expression
SafeChars == Range(LowerCase) \cup Range(UpperCase) \cup Digits \cup {".", "_", "-"}

\* str.lower() on one character
ToLower(c) ==
    IF \E i \in DOMAIN UpperCase : UpperCase[i] = c
    THEN LowerCase[CHOOSE i \in DOMAIN UpperCase : UpperCase[i] = c]
    ELSE c

Lower(s) == [i \in DOMAIN s |-> ToLower(s[i])]

Take(s, n) == SubSeq(s, 1, IF Len(s) < n THEN Len(s) ELSE n)

\* c * n
Rep(c, n) == [i \in 1..n |-> c]

\* str.rstrip(chars): drops every trailing character that is in the set chars
RECURSIVE RStrip(_, _)
RStrip(s, chars) ==
    IF s = <<>> \/ s[Len(s)] \notin chars THEN s
    ELSE RStrip(SubSeq(s, 1, Len(s) - 1), chars)

RECURSIVE LStrip(_, _)
LStrip(s, chars) ==
    IF s = <<>> \/ s[1] \notin chars THEN s
    ELSE LStrip(SubSeq(s, 2, Len(s)), chars)

\* str.strip(chars)
Strip(s, chars) == LStrip(RStrip(s, chars), chars)

\* positions at which sep occurs in s
Occurrences(s, sep) ==
    {i \in 1..(Len(s) - Len(sep) + 1) : SubSeq(s, i, i + Len(sep) - 1) = sep}

Max(S) == CHOOSE x \in S : \A y \in S : y <= x

\* s.split(sep)[-1]: what follows the last occurrence of sep, or s itself
SplitLast(s, sep) ==
    IF Occurrences(s, sep) = {} THEN s
    ELSE SubSeq(s, Max(Occurrences(s, sep)) + Len(sep), Len(s))

\* re.sub(r"[^a-zA-Z0-9._-]", "-", s)
SubUnsafe(s) == [i \in DOMAIN s |-> IF s[i] \in SafeChars THEN s[i] ELSE "-"]

-----------------------------------------------------------------------------
(* replicator.py: _slugify                                                 *)

TagLimit == 128

GithubHost == <<"g","i","t","h","u","b",".","c","o","m","/">>
TagPrefix  == <<"d","e","v","r","e","p","l","i","c","a","t","o","r","-">>

\* the argument of rstrip(".git") is a set of characters, not a suffix
GitChars == {".", "g", "i", "t"}

\* line 171
SlugName(u) == SplitLast(RStrip(RStrip(u, {"/"}), GitChars), GithubHost)

\* line 172
SlugClean(name) == Strip(Lower(SubUnsafe(name)), {"-"})

\* the cut applied to the name instead of the whole tag
SlugifyCutsName(u) == TagPrefix \o Take(SlugClean(SlugName(u)), TagLimit)

\* lines 169-173
Slugify(u) == Take(TagPrefix \o SlugClean(SlugName(u)), TagLimit)

-----------------------------------------------------------------------------
(* detectors.py: _scan_python_imports                                      *)

\* A source line is a sequence of lexical tokens: "WS" is a run of blanks,
\* "." a dot, "import" and "from" the keywords, "#" any other text that cannot
\* start an identifier; every other token is an identifier.
NonIdentifier == {"WS", ".", "#"}

\* lines 148-157
stdlib_prefixes ==
    { "os", "sys", "re", "io", "abc", "ast", "csv", "json", "math",
      "time", "enum", "uuid", "copy", "glob", "gzip", "hmac", "html",
      "http", "logging", "pathlib", "shutil", "socket", "struct",
      "string", "threading", "traceback", "typing", "unittest",
      "urllib", "xml", "zipfile", "subprocess", "collections",
      "contextlib", "dataclasses", "datetime", "functools", "hashlib",
      "inspect", "itertools", "multiprocessing", "operator", "random",
      "signal", "stat", "tempfile", "textwrap", "warnings" }

\* ^\s* : the line without its leading blanks
SkipBlanks(line) ==
    IF line # <<>> /\ line[1] = "WS" THEN Tail(line) ELSE line

\* line 159, import_re.match(line): the captured group, or None.
\* ^\s*(?:import|from)\s+([a-zA-Z_][a-zA-Z0-9_]*) asks for nothing after
\* the identifier.
ImportMatch(line) ==
    LET l == SkipBlanks(line) IN
    IF /\ Len(l) >= 3
       /\ l[1] \in {"import", "from"}
       /\ l[2] = "WS"
       /\ l[3] \notin NonIdentifier
    THEN l[3]
    ELSE None

\* the loop without the denylist test of line 168
RECURSIVE ScanLinesKeepsStdlib(_, _)
ScanLinesKeepsStdlib(lines, acc) ==
    IF lines = <<>> THEN acc
    ELSE LET pkg == ImportMatch(Head(lines)) IN
         ScanLinesKeepsStdlib(Tail(lines), IF pkg # None THEN acc \cup {pkg} ELSE acc)

\* lines 164-169: the loop over the lines of one file
RECURSIVE ScanLines(_, _)
ScanLines(lines, acc) ==
    IF lines = <<>> THEN acc
    ELSE LET pkg == ImportMatch(Head(lines)) IN
         ScanLines(Tail(lines),
                   IF pkg # None /\ pkg \notin stdlib_prefixes
                   THEN acc \cup {pkg} ELSE acc)

\* what the file system holds under a name: a readable file with its lines, a
\* file that cannot be read, or a directory
SourceFile(lines) == [kind |-> "file", readable |-> TRUE, lines |-> lines]
LockedFile        == [kind |-> "file", readable |-> FALSE]
Directory         == [kind |-> "dir"]

\* read_text raises OSError on a directory and on a file that cannot be read
Readable(f) == f.kind = "file" /\ f.readable

\* lines 160-173: the loop over the files; an OSError skips the file
RECURSIVE ScanFiles(_, _)
ScanFiles(files, acc) ==
    IF files = <<>> THEN acc
    ELSE ScanFiles(Tail(files),
                   IF Readable(Head(files))
                   THEN ScanLines(Head(files).lines, acc)
                   ELSE acc)

ScanPythonImports(files) == ScanFiles(files, {})

-----------------------------------------------------------------------------
(* detectors.py: ProjectInfo, detect_project and the entry-point searches  *)

PYTHON_ENTRY_CANDIDATES == <<"app.py", "main.py", "server.py", "run.py", "manage.py", "cli.py">>
NODE_ENTRY_CANDIDATES   == <<"index.js", "server.js", "app.js", "main.js", "src/index.js">>

\* lines 16-31
ProjectInfo(type, entry, dep, base, start, imports) ==
    [ project_type    |-> type,
      entry_point     |-> entry,
      dep_file        |-> dep,
      base_image      |-> base,
      start_command   |-> start,
      scanned_imports |-> imports ]

\* (root / name).exists(): true of a file and of a directory alike
Exists(t, name) == name \in DOMAIN t

\* the first candidate that exists, or None
RECURSIVE FirstExisting(_, _)
FirstExisting(t, candidates) ==
    IF candidates = <<>> THEN None
    ELSE IF Exists(t, Head(candidates)) THEN Head(candidates)
    ELSE FirstExisting(t, Tail(candidates))

\* lines 111-117
FindPythonEntry(t) == FirstExisting(t, PYTHON_ENTRY_CANDIDATES)

\* pkg.read_text() raises OSError on a directory or an unreadable file
\* (line 126); neither is JSONDecodeError or KeyError
ReadRaises(node) == node.kind = "dir" \/ ~node.readable

\* lines 126-130 for a package.json that was read: "return" with the main
\* path, "raise" for an exception the except clause does not name, "pass"
\* to go on to the candidate list
MainLookup(t, doc) ==
    IF doc.parse = "invalid" THEN [out |-> "pass"]           \* JSONDecodeError, caught
    ELSE IF doc.parse # "object" THEN [out |-> "raise"]      \* list, number, null: no .get
    ELSE IF doc.main.type \in {"absent", "null"} THEN [out |-> "pass"]
    ELSE IF doc.main.type = "number" THEN [out |-> "raise"]  \* root / 5: TypeError
    ELSE IF doc.main.value = "" THEN [out |-> "pass"]        \* falsy
    ELSE IF Exists(t, doc.main.value) THEN [out |-> "return", value |-> doc.main.value]
    ELSE [out |-> "pass"]

\* lines 122-132
NodeLookup(t) ==
    IF ~Exists(t, "package.json") THEN [out |-> "pass"]
    ELSE IF ReadRaises(t["package.json"]) THEN [out |-> "raise"]
    ELSE MainLookup(t, t["package.json"].doc)

\* an exception leaves _find_node_entry
FindNodeEntryRaises(t) == NodeLookup(t).out = "raise"

\* lines 120-140, the value returned when no exception leaves the function
FindNodeEntry(t) ==
    IF NodeLookup(t).out = "return" THEN NodeLookup(t).value
    ELSE FirstExisting(t, NODE_ENTRY_CANDIDATES)

\* names of the tree that match *.py
PyNames == Range(PYTHON_ENTRY_CANDIDATES) \cup {"pkg/util.py"}

RECURSIVE SetToSeq(_)
SetToSeq(S) ==
    IF S = {} THEN <<>>
    ELSE LET x == CHOOSE y \in S : TRUE IN <<x>> \o SetToSeq(S \ {x})

\* line 84, list(root.rglob("*.py")): files and directories alike
Rglob(t) == [i \in DOMAIN SetToSeq(DOMAIN t \cap PyNames) |->
                t[SetToSeq(DOMAIN t \cap PyNames)[i]]]

\* a start command is a sequence of words; NoCommand stands for None
NoCommand == <<>>

\* f"python {entry}" if entry else None
PythonStart(entry) == IF entry # None THEN <<"python", entry>> ELSE NoCommand

\* lines 47-57
PipBranch(t) ==
    ProjectInfo("python", FindPythonEntry(t), "requirements.txt",
                "python:3.11-slim", PythonStart(FindPythonEntry(t)), {})

\* lines 59-69
PoetryBranch(t) ==
    ProjectInfo("poetry", FindPythonEntry(t), "pyproject.toml",
                "python:3.11-slim", PythonStart(FindPythonEntry(t)), {})

\* lines 71-81
NodeBranch(t) ==
    ProjectInfo("node", FindNodeEntry(t), "package.json",
                "node:18-slim", <<"npm", "start">>, {})

\* lines 83-98
FallbackBranch(t) ==
    ProjectInfo("python", FindPythonEntry(t), None,
                "python:3.11-slim", PythonStart(FindPythonEntry(t)),
                ScanPythonImports(Rglob(t)))

\* lines 100-108
UnknownInfo == ProjectInfo("unknown", None, None, None, NoCommand, {})

\* no ProjectInfo yet
NoInfo == ProjectInfo(None, None, None, None, NoCommand, {})

\* detect_project ends with an exception: only _find_node_entry can raise,
\* and it is called in the package.json branch alone (line 74)
DetectRaises(t) ==
    /\ ~Exists(t, "requirements.txt")
    /\ ~Exists(t, "pyproject.toml")
    /\ Exists(t, "package.json")
    /\ FindNodeEntryRaises(t)

\* lines 40-108, the value returned when no exception leaves the function
DetectProject(t) ==
    IF Exists(t, "requirements.txt") THEN PipBranch(t)
    ELSE IF Exists(t, "pyproject.toml") THEN PoetryBranch(t)
    ELSE IF Exists(t, "package.json") THEN NodeBranch(t)
    ELSE IF Rglob(t) # <<>> THEN FallbackBranch(t)
    ELSE UnknownInfo

-----------------------------------------------------------------------------
(* Inputs of the image-tag derivation                                      *)

MaxParts == 3

\* pieces a URL path is assembled from
Pieces == { <<"a">>, <<"R">>, <<"t">>, <<"/">>, <<"-">>, <<" ">>,
            <<".">>, <<".","g","i","t">> }

Hosts == { <<>>,
           GithubHost,
           <<"h","t","t","p","s",":","/","/">> \o GithubHost,
           <<"h","t","t","p","s",":","/","/","g","i","t","l","a","b",".","c","o","m","/">> }

\* filler long enough for the 128-character cut to fall inside the path
PadLen == TagLimit - Len(TagPrefix) - 2

RECURSIVE Flatten(_)
Flatten(ps) == IF ps = <<>> THEN <<>> ELSE Head(ps) \o Flatten(Tail(ps))

\* lists of at most n pieces
PartLists(n) == UNION {[1..k -> Pieces] : k \in 0..n}

\* prompt() strips surrounding whitespace and _run_cli exits on an empty
\* answer, so the URL is non-empty and neither starts nor ends with a blank
UrlInputs(parts) ==
    { u \in { h \o Rep("a", n) \o Flatten(ps) :
                h \in Hosts, n \in {0, PadLen}, ps \in PartLists(parts) } :
        u # <<>> /\ u[1] # " " /\ u[Len(u)] # " " }

InitSlug ==
    /\ url \in UrlInputs(MaxParts)
    /\ image_tag = <<>> /\ retag = <<>>
    /\ tree = <<>> /\ info = NoInfo
    /\ py_files = <<>> /\ found = {}
    /\ pc = "slugify" /\ steps = <<>> /\ failed = {}
    /\ run_args = NoArgs /\ exit_status = 0 /\ diagnostic = None

\* image_tag = _slugify(url)   (replicator.py line 89)
DeriveTag ==
    /\ pc = "slugify"
    /\ image_tag' = Slugify(url)
    /\ pc' = "reslugify"
    /\ UNCHANGED <<url, retag, detectVars, scanVars, steps, failed, run_args, exit_status, diagnostic>>

\* the derivation applied to its own output
DeriveAgain ==
    /\ pc = "reslugify"
    /\ retag' = Slugify(image_tag)
    /\ pc' = "end"
    /\ UNCHANGED <<url, image_tag, detectVars, scanVars, steps, failed, run_args, exit_status, diagnostic>>

NextSlug == DeriveTag \/ DeriveAgain

SpecSlug == InitSlug /\ [][NextSlug]_vars

-----------------------------------------------------------------------------
(* Claims about the image tag                                              *)

\* str.removesuffix: drops suf once when s ends with it
RemoveSuffix(s, suf) ==
    IF Len(s) >= Len(suf) /\ SubSeq(s, Len(s) - Len(suf) + 1, Len(s)) = suf
    THEN SubSeq(s, 1, Len(s) - Len(suf))
    ELSE s

DotGit == <<".", "g", "i", "t">>

\* the derivation as specified: only trailing "/" and a trailing ".git" go
SpecifiedTag(u) ==
    Take(TagPrefix \o
         SlugClean(SplitLast(RemoveSuffix(RStrip(u, {"/"}), DotGit), GithubHost)),
         TagLimit)

\* C4: the tag _slugify returns is the specified derivation of the URL; apart
\* from a trailing "/" and a trailing ".git" nothing is cut off the end of
\* the repository path.
C4_TagIsSpecifiedDerivation ==
    pc \in {"reslugify", "end"} => image_tag = SpecifiedTag(url)

\* C5 as stated: re-slugifying a tag returns the same tag.
C5_Idempotent ==
    pc = "end" => retag = image_tag

\* C5 as amended: re-slugifying a tag yields the namespace prefix followed by
\* the tag without its trailing characters from {".", "g", "i", "t"} and
\* without the trailing "-" left after that, cut to 128 characters.
C5_ReslugPrependsNamespace ==
    pc = "end" =>
        retag = Take(TagPrefix \o RStrip(RStrip(image_tag, GitChars), {"-"}), TagLimit)

C5_Witness ==
    /\ pc = "end"
    /\ Len(image_tag) = TagLimit
    /\ image_tag[Len(image_tag)] \in GitChars
    /\ retag # image_tag

TagChars == Range(LowerCase) \cup Digits \cup {".", "_", "-"}

\* C6: the tag is at most 128 characters long, is the namespace prefix
\* followed only by characters of [a-z0-9._-], and neither begins nor ends
\* with "-".
C6_TagWellFormed ==
    pc \in {"reslugify", "end"} =>
        /\ Len(image_tag) <= TagLimit
        /\ Len(image_tag) >= Len(TagPrefix)
        /\ SubSeq(image_tag, 1, Len(TagPrefix)) = TagPrefix
        /\ Range(image_tag) \subseteq TagChars
        /\ image_tag[1] # "-"
        /\ image_tag[Len(image_tag)] # "-"

-----------------------------------------------------------------------------
(* Inputs of detect_project: the content of the repository directory       *)

MaxEntries == 3

PlainFile == [kind |-> "file", readable |-> TRUE]

\* what package.json holds: text json.loads rejects, a document that is not
\* an object, or an object whose "main" is absent, a number or a string
Docs ==
    { [parse |-> "invalid"], [parse |-> "array"] }
    \cup { [parse |-> "object", main |-> m] :
             m \in { [type |-> "absent"], [type |-> "number"] }
                   \cup { [type |-> "string", value |-> v] :
                            v \in {"", "lib/start.js", "src/index.js"} } }

TreeNames ==
    {"requirements.txt", "pyproject.toml", "package.json", "lib/start.js"}
    \cup PyNames \cup Range(NODE_ENTRY_CANDIDATES)

\* what a name of the tree can be
NodesOf(name) ==
    IF name = "package.json"
    THEN {Directory, LockedFile} \cup {[kind |-> "file", readable |-> TRUE, doc |-> d] : d \in Docs}
    ELSE IF name \in PyNames
    THEN {Directory, LockedFile, SourceFile(<<<<"import", "WS", "flask">>, <<"import", "WS", "os">>>>)}
    ELSE {Directory, PlainFile}

\* every tree over the names S
RECURSIVE TreesOver(_)
TreesOver(S) ==
    IF S = {} THEN {<<>>}
    ELSE LET name == CHOOSE x \in S : TRUE IN
         {(name :> n) @@ t : n \in NodesOf(name), t \in TreesOver(S \ {name})}

\* every tree of at most n entries with names from the set names
Trees(names, n) ==
    UNION {TreesOver(S) : S \in {T \in SUBSET names : Cardinality(T) <= n}}

InitDetect ==
    /\ tree \in Trees(TreeNames, MaxEntries)
    /\ info = NoInfo
    /\ url = <<>> /\ image_tag = <<>> /\ retag = <<>>
    /\ py_files = <<>> /\ found = {}
    /\ pc = "detect" /\ steps = <<>> /\ failed = {}
    /\ run_args = NoArgs /\ exit_status = 0 /\ diagnostic = None

\* info = detect_project(repo_path) returns
DetectReturns ==
    /\ pc = "detect"
    /\ ~DetectRaises(tree)
    /\ info' = DetectProject(tree)
    /\ pc' = "returned"
    /\ UNCHANGED <<tree, slugVars, scanVars, steps, failed, run_args, exit_status, diagnostic>>

\* detect_project(repo_path) ends with an exception
DetectFails ==
    /\ pc = "detect"
    /\ DetectRaises(tree)
    /\ pc' = "raised"
    /\ UNCHANGED <<tree, info, slugVars, scanVars, steps, failed, run_args, exit_status, diagnostic>>

NextDetect == DetectReturns \/ DetectFails

SpecDetect == InitDetect /\ [][NextDetect]_vars

-----------------------------------------------------------------------------
(* Claims about detection                                                  *)

AnyPy(t) == DOMAIN t \cap PyNames # {}

\* C1: the rules apply in a fixed priority order and the first match wins:
\* requirements.txt gives (python, requirements.txt), else pyproject.toml
\* gives (poetry, pyproject.toml), else package.json gives (node,
\* package.json), else any *.py gives (python, no dep_file), else unknown
\* with every other field None.
C1_PriorityOrder ==
    pc \in {"returned", "raised"} =>
        /\ pc = "returned"
        /\ IF Exists(tree, "requirements.txt")
           THEN info.project_type = "python" /\ info.dep_file = "requirements.txt"
           ELSE IF Exists(tree, "pyproject.toml")
           THEN info.project_type = "poetry" /\ info.dep_file = "pyproject.toml"
           ELSE IF Exists(tree, "package.json")
           THEN info.project_type = "node" /\ info.dep_file = "package.json"
           ELSE IF AnyPy(tree)
           THEN info.project_type = "python" /\ info.dep_file = None
           ELSE info = UnknownInfo

\* C2: detect_project never raises: whatever package.json holds, the failed
\* lookup of "main" is swallowed and a node ProjectInfo is returned, and an
\* unreadable Python file does not abort the scan.
C2_DetectIsTotal ==
    pc \in {"returned", "raised"} =>
        /\ pc = "returned"
        /\ info.project_type \in {"python", "poetry", "node", "unknown"}
        /\ ( /\ ~Exists(tree, "requirements.txt")
             /\ ~Exists(tree, "pyproject.toml")
             /\ Exists(tree, "package.json") ) => info.project_type = "node"

NodeRuleApplies(t) ==
    /\ ~Exists(t, "requirements.txt")
    /\ ~Exists(t, "pyproject.toml")
    /\ Exists(t, "package.json")

\* package.json is a key-value document whose "main" names an existing path
MainNamesExisting(t) ==
    /\ Exists(t, "package.json")
    /\ t["package.json"].kind = "file"
    /\ t["package.json"].readable
    /\ t["package.json"].doc.parse = "object"
    /\ t["package.json"].doc.main.type = "string"
    /\ t["package.json"].doc.main.value # ""
    /\ Exists(t, t["package.json"].doc.main.value)

\* C7: the node entry point is the "main" path when package.json is a
\* key-value document whose "main" names an existing path, and in every
\* other case the first existing name of the candidate list, or None.
C7_NodeEntryPoint ==
    (pc \in {"returned", "raised"} /\ NodeRuleApplies(tree)) =>
        /\ pc = "returned"
        /\ info.entry_point =
              IF MainNamesExisting(tree)
              THEN tree["package.json"].doc.main.value
              ELSE FirstExisting(tree, NODE_ENTRY_CANDIDATES)

IsFile(t, name) == name \in DOMAIN t /\ t[name].kind = "file"

RECURSIVE FirstFile(_, _)
FirstFile(t, candidates) ==
    IF candidates = <<>> THEN None
    ELSE IF IsFile(t, Head(candidates)) THEN Head(candidates)
    ELSE FirstFile(t, Tail(candidates))

\* C8: the Python entry point is the first candidate that exists as a file
\* at the root, None when there is none; a candidate name that is a
\* directory is not returned.
C8_PythonEntryIsFirstFile ==
    (pc = "returned" /\ info.project_type \in {"python", "poetry"}) =>
        info.entry_point = FirstFile(tree, PYTHON_ENTRY_CANDIDATES)

-----------------------------------------------------------------------------
(* Inputs of the import scan                                               *)

MaxLines == 2

LineHeads   == { <<"import">>, <<"from">>, <<"#">> }
LineTargets == { <<"numpy">>, <<"flask">>, <<"os">>, <<".", "pkg">> }
LineRests   == { <<>>, <<"WS", "import", "WS", "x">> }

Lines ==
    { h \o <<"WS">> \o t \o r : h \in LineHeads, t \in LineTargets, r \in LineRests }
    \cup { <<>>,
           <<"WS", "import", "WS", "flask">>,
           <<"import", "WS", "numpy", ".", "linalg">>,
           <<"import", "flask">> }


\* lists of at most n lines
LineLists(n) == UNION {[1..k -> Lines] : k \in 0..n}

\* two files sharing at most MaxLines lines; the second may be unreadable
InitScan ==
    /\ \E ls \in LineLists(MaxLines) : \E k \in 0..Len(ls) :
         \E second \in {SourceFile(SubSeq(ls, k + 1, Len(ls))), LockedFile, Directory} :
            py_files = <<SourceFile(SubSeq(ls, 1, k)), second>>
    /\ found = {}
    /\ url = <<>> /\ image_tag = <<>> /\ retag = <<>>
    /\ tree = <<>> /\ info = NoInfo
    /\ pc = "scan" /\ steps = <<>> /\ failed = {}
    /\ run_args = NoArgs /\ exit_status = 0 /\ diagnostic = None

\* found = _scan_python_imports(py_files)
ScanImports ==
    /\ pc = "scan"
    /\ found' = ScanPythonImports(py_files)
    /\ pc' = "end"
    /\ UNCHANGED <<py_files, slugVars, detectVars, steps, failed, run_args, exit_status, diagnostic>>

NextScan == ScanImports

SpecScan == InitScan /\ [][NextScan]_vars

-----------------------------------------------------------------------------
(* Claims about the import scan                                            *)

\* lines of the files that can be read
ReadLines(files) ==
    UNION { Range(files[i].lines) : i \in {j \in DOMAIN files : Readable(files[j])} }

Blankless(line) == IF line # <<>> /\ line[1] = "WS" THEN Tail(line) ELSE line

\* X of a line that starts with "import X" or "from X import", else None
StatementModule(line) ==
    LET l == Blankless(line) IN
    IF Len(l) >= 3 /\ l[1] = "import" /\ l[2] = "WS" /\ l[3] \notin NonIdentifier
    THEN l[3]
    ELSE IF /\ Len(l) >= 5 /\ l[1] = "from" /\ l[2] = "WS" /\ l[3] \notin NonIdentifier
            /\ l[4] = "WS" /\ l[5] = "import"
    THEN l[3]
    ELSE None

\* X of a line that starts with "import X" or "from X", whatever follows X
KeywordModule(line) ==
    LET l == Blankless(line) IN
    IF Len(l) >= 3 /\ l[1] \in {"import", "from"} /\ l[2] = "WS" /\ l[3] \notin NonIdentifier
    THEN l[3]
    ELSE None

\* C9 as stated: the scan returns exactly the modules X of the lines that
\* start with "import X" or "from X import", minus the denylist.
C9_ExactlyImportStatements ==
    pc = "end" =>
        found = ({StatementModule(l) : l \in ReadLines(py_files)} \ {None}) \ stdlib_prefixes

\* C9 as amended: the scan returns exactly the modules X of the lines that
\* start with "import X" or with "from X" (whether or not "import" follows),
\* minus the denylist; repeated modules are one entry and relative imports
\* contribute nothing.
C9_ExactlyKeywordLines ==
    pc = "end" =>
        /\ found = ({KeywordModule(l) : l \in ReadLines(py_files)} \ {None}) \ stdlib_prefixes
        /\ found \cap stdlib_prefixes = {}
        /\ "pkg" \notin found

C9_Witness ==
    /\ pc = "end"
    /\ found = {"numpy"}
    /\ Readable(py_files[2])
    /\ \E l1 \in Range(py_files[1].lines) : \E l2 \in Range(py_files[2].lines) :
          /\ KeywordModule(l1) = "numpy" /\ StatementModule(l1) = None
          /\ KeywordModule(l2) = "numpy"

-----------------------------------------------------------------------------
(* executor.py and replicator.py: the CLI pipeline                         *)

\* executor.py _run: the external process ends with status zero or not, or
\* subprocess.run raises (nothing in _run or its callers catches it)
RunOutcomes == {"zero", "nonzero", "raised"}

\* executor.py lines 25-47: check_git, then git clone
CloneRepository(git, rc) ==
    IF ~git THEN "exit"                    \* check_git: sys.exit(1)
    ELSE IF rc = "raised" THEN "crash"
    ELSE IF rc # "zero" THEN "exit"        \* lines 42-44
    ELSE "cloned"

\* the entry-point prompt recording the file name and leaving the command
ResolveInfoLeavesCommand(i, base, cmd, entry) ==
    LET j == IF i.project_type = "unknown"
             THEN [i EXCEPT !.base_image    = IF base # "" THEN base ELSE "ubuntu:22.04",
                            !.start_command = IF cmd # <<>> THEN cmd ELSE <<"bash">>]
             ELSE i
    IN  IF j.entry_point = None /\ j.project_type \in {"python", "poetry"} /\ entry # ""
        THEN [j EXCEPT !.entry_point = entry]
        ELSE j

\* replicator.py lines 70-81: the prompts that fill the gaps of detection;
\* an empty answer is "" (or <<>> for a command)
ResolveInfo(i, base, cmd, entry) ==
    LET j == IF i.project_type = "unknown"
             THEN [i EXCEPT !.base_image    = IF base # "" THEN base ELSE "ubuntu:22.04",
                            !.start_command = IF cmd # <<>> THEN cmd ELSE <<"bash">>]
             ELSE i
    IN  IF j.entry_point = None /\ j.project_type \in {"python", "poetry"} /\ entry # ""
        THEN [j EXCEPT !.entry_point = entry, !.start_command = <<"python", entry>>]
        ELSE j

\* docker_generator.generate_dockerfile: writes the build spec for a
\* ProjectInfo and returns its path; it does not fail
GenerateDockerfile(i) == "Dockerfile"

\* executor.py lines 58-73
CheckDocker(docker, info_rc) ==
    IF ~docker THEN "exit"
    ELSE IF info_rc = "raised" THEN "crash"
    ELSE IF info_rc # "zero" THEN "exit"
    ELSE "ok"

\* executor.py lines 76-100: "true" and "false" are the values returned
BuildImage(docker, info_rc, build_rc) ==
    IF CheckDocker(docker, info_rc) # "ok" THEN CheckDocker(docker, info_rc)
    ELSE IF build_rc = "raised" THEN "crash"
    ELSE IF build_rc # "zero" THEN "false"
    ELSE "true"

\* the run going on whatever build_image returned
AfterBuildIgnoresResult(built) ==
    IF built \in {"true", "false"} THEN "ports" ELSE built

\* replicator.py lines 95-98: what follows build_image
AfterBuild(built) ==
    IF built = "true" THEN "ports"
    ELSE IF built = "false" THEN "exit"
    ELSE built

\* int(prompt(...) or default): the number, or "ValueError"
PortAnswers == {"", "8080", "http"}

IntOr(answer, default) ==
    IF answer = "" THEN default
    ELSE IF answer = "8080" THEN "8080"
    ELSE "ValueError"

\* replicator.py lines 104-113: port_mapping, <<>> for None, or "ValueError"
PortMapping(type, node_port, use_port, host_port, container_port) ==
    IF type = "node"
    THEN IF IntOr(node_port, "3000") = "ValueError" THEN <<"ValueError">>
         ELSE <<IntOr(node_port, "3000"), "3000">>
    ELSE IF type \in {"python", "poetry"} /\ use_port
    THEN IF "ValueError" \in {IntOr(host_port, "8000"), IntOr(container_port, "8000")}
         THEN <<"ValueError">>
         ELSE <<IntOr(host_port, "8000"), IntOr(container_port, "8000")>>
    ELSE <<>>

\* executor.py lines 146-154: docker ps, then docker rm when it listed one
RemoveExistingContainer(ps, rm) ==
    IF ps = "raised" THEN "crash"
    ELSE IF ps = "listed" /\ rm = "raised" THEN "crash"
    ELSE "ok"

\* executor.py lines 103-143: "true" and "false" are the values returned
RunContainer(ps, rm, run_rc, status_rc, detach) ==
    IF RemoveExistingContainer(ps, rm) = "crash" THEN "crash"
    ELSE IF run_rc = "raised" THEN "crash"
    ELSE IF run_rc # "zero" THEN "false"            \* lines 130-132
    ELSE IF detach /\ status_rc = "raised" THEN "crash"  \* _print_container_status
    ELSE "true"

\* replicator.py line 116: the value run_container returns is not looked at
AfterRun(ran) == IF ran = "crash" THEN "crash" ELSE "complete"

PipelineOrder == <<"clone", "detect", "generate", "build", "run">>

\* log_error(...) and sys.exit(1)
SysExit ==
    /\ pc' = "exited"
    /\ exit_status' = 1
    /\ diagnostic' = "log_error"

\* an exception nothing catches: the interpreter prints the traceback and
\* the process ends with status 1
Crash ==
    /\ pc' = "exited"
    /\ exit_status' = 1
    /\ diagnostic' = "traceback"

Leave(how) == IF how = "crash" THEN Crash ELSE SysExit

-----------------------------------------------------------------------------
(* Inputs of a CLI run                                                     *)

MaxCloned == 2

CliUrls == {h \o <<"a", "/", "R">> : h \in Hosts}

\* names git clone can leave in the destination directory
CliNames == {"requirements.txt", "pyproject.toml", "package.json",
             "app.py", "pkg/util.py", "index.js"}

Init ==
    /\ pc = "prompt_url"
    /\ url = <<>> /\ image_tag = <<>> /\ retag = <<>>
    /\ tree = <<>> /\ info = NoInfo
    /\ py_files = <<>> /\ found = {}
    /\ steps = <<>> /\ failed = {}
    /\ run_args = NoArgs /\ exit_status = 0 /\ diagnostic = None

\* replicator.py lines 47-53
PromptUrl ==
    /\ pc = "prompt_url"
    /\ \E answer \in CliUrls \cup {<<>>} :
          IF answer = <<>>
          THEN SysExit /\ UNCHANGED url
          ELSE /\ url' = answer
               /\ pc' = "clone"
               /\ UNCHANGED <<exit_status, diagnostic>>
    /\ UNCHANGED <<image_tag, retag, detectVars, scanVars, steps, failed, run_args>>

\* replicator.py lines 55-58
Clone ==
    /\ pc = "clone"
    /\ steps' = Append(steps, "clone")
    /\ \E git \in BOOLEAN, rc \in RunOutcomes, cloned \in Trees(CliNames, MaxCloned) :
          LET done == CloneRepository(git, rc) IN
          /\ failed' = IF git /\ rc = "nonzero" THEN failed \cup {"clone"} ELSE failed
          /\ IF done = "cloned"
             THEN /\ tree' = cloned
                  /\ pc' = "detect"
                  /\ UNCHANGED <<exit_status, diagnostic>>
             ELSE Leave(done) /\ UNCHANGED tree
    /\ UNCHANGED <<slugVars, info, scanVars, run_args>>

\* replicator.py lines 60-68
Detect ==
    /\ pc = "detect"
    /\ steps' = Append(steps, "detect")
    /\ IF DetectRaises(tree)
       THEN Crash /\ UNCHANGED info
       ELSE /\ info' = DetectProject(tree)
            /\ pc' = "resolve"
            /\ UNCHANGED <<exit_status, diagnostic>>
    /\ UNCHANGED <<slugVars, tree, scanVars, failed, run_args>>

BaseAnswers    == {"", "alpine:3"}
CommandAnswers == {<<>>, <<"sh">>}
EntryAnswers   == {"", "start.py"}

\* replicator.py lines 70-81
Resolve ==
    /\ pc = "resolve"
    /\ \E base \in BaseAnswers, cmd \in CommandAnswers, entry \in EntryAnswers :
          info' = ResolveInfo(info, base, cmd, entry)
    /\ pc' = "generate"
    /\ UNCHANGED <<slugVars, tree, scanVars, steps, failed, run_args, exit_status, diagnostic>>

\* replicator.py lines 83-86
Generate ==
    /\ pc = "generate"
    /\ steps' = Append(steps, "generate")
    /\ GenerateDockerfile(info) = "Dockerfile"
    /\ pc' = "build"
    /\ UNCHANGED <<slugVars, detectVars, scanVars, failed, run_args, exit_status, diagnostic>>

\* replicator.py lines 88-98
Build ==
    /\ pc = "build"
    /\ image_tag' = Slugify(url)
    /\ steps' = Append(steps, "build")
    /\ \E docker \in BOOLEAN, info_rc \in RunOutcomes, build_rc \in RunOutcomes :
          LET next == AfterBuild(BuildImage(docker, info_rc, build_rc)) IN
          /\ failed' = IF BuildImage(docker, info_rc, build_rc) = "false"
                       THEN failed \cup {"build"} ELSE failed
          /\ IF next = "ports"
             THEN pc' = "ports" /\ UNCHANGED <<exit_status, diagnostic>>
             ELSE Leave(next)
    /\ UNCHANGED <<url, retag, detectVars, scanVars, run_args>>

\* replicator.py lines 100-115
Ports ==
    /\ pc = "ports"
    /\ steps' = Append(steps, "run")
    /\ \E node_port \in PortAnswers, use_port \in BOOLEAN, host_port \in PortAnswers,
          container_port \in PortAnswers, detach \in BOOLEAN :
          LET mapping == PortMapping(info.project_type, node_port, use_port,
                                     host_port, container_port) IN
          IF mapping = <<"ValueError">>
          THEN Crash /\ UNCHANGED run_args
          ELSE /\ run_args' = [port_mapping |-> mapping, detach |-> detach]
               /\ pc' = "run"
               /\ UNCHANGED <<exit_status, diagnostic>>
    /\ UNCHANGED <<slugVars, detectVars, scanVars, failed>>

\* replicator.py line 116
Run ==
    /\ pc = "run"
    /\ \E ps \in {"empty", "listed", "raised"}, rm \in RunOutcomes,
          run_rc \in RunOutcomes, status_rc \in RunOutcomes :
          LET ran == RunContainer(ps, rm, run_rc, status_rc, run_args.detach) IN
          /\ failed' = IF ran = "false" THEN failed \cup {"run"} ELSE failed
          /\ IF AfterRun(ran) = "complete"
             THEN pc' = "complete" /\ UNCHANGED <<exit_status, diagnostic>>
             ELSE Crash
    /\ UNCHANGED <<slugVars, detectVars, scanVars, steps, run_args>>

\* replicator.py lines 118-130; main returns and the process ends with 0
Complete ==
    /\ pc = "complete"
    /\ pc' = "exited"
    /\ exit_status' = 0
    /\ diagnostic' = "log_success"
    /\ UNCHANGED <<slugVars, detectVars, scanVars, steps, failed, run_args>>

Next ==
    \/ PromptUrl
    \/ Clone
    \/ Detect
    \/ Resolve
    \/ Generate
    \/ Build
    \/ Ports
    \/ Run
    \/ Complete

Spec == Init /\ [][Next]_vars

-----------------------------------------------------------------------------
(* Claims about the CLI pipeline                                           *)

IsPrefix(s, t) == Len(s) <= Len(t) /\ s = SubSeq(t, 1, Len(s))

\* C10: the steps start at most once each, in the order clone, detect,
\* generate, build, run; none is retried; detect never follows a failed
\* clone and the container is never started after a failed image build.
C10_StrictSequence ==
    /\ IsPrefix(steps, PipelineOrder)
    /\ "clone" \in failed => "detect" \notin Range(steps)
    /\ "build" \in failed => "run" \notin Range(steps)
    /\ failed \subseteq Range(steps)

C10_Witness ==
    /\ pc = "exited"
    /\ "build" \in failed
    /\ steps = <<"clone", "detect", "generate", "build">>

\* start_command follows from project_type and entry_point: 'python <entry>'
\* or unset for python and poetry, 'npm start' for node
CommandCoupled(i) ==
    /\ i.project_type \in {"python", "poetry"} =>
           i.start_command = IF i.entry_point # None
                             THEN <<"python", i.entry_point>>
                             ELSE NoCommand
    /\ i.project_type = "node" => i.start_command = <<"npm", "start">>

\* C11: the ProjectInfo handed to generate_dockerfile, whatever detection
\* found and whatever was answered (nothing included) to the prompts, has a
\* base image; its start command is a non-empty answer or the default for
\* an unknown project, 'npm start' for node, and for python and poetry
\* 'python <entry_point>' when there is an entry point and unset exactly
\* when there is none. The value detect_project returns already couples
\* start_command and entry_point in this way.
C11_InfoConsistent ==
    /\ pc = "generate" =>
          /\ info.project_type \in {"python", "poetry", "node", "unknown"}
          /\ info.base_image # None
          /\ info.project_type = "unknown" =>
                /\ info.start_command # NoCommand
                /\ info.start_command \in CommandAnswers \cup {<<"bash">>}
          /\ CommandCoupled(info)
    /\ pc = "resolve" =>
          /\ CommandCoupled(info)
          /\ info.project_type = "unknown" =>
                (info.entry_point = None /\ info.start_command = NoCommand)

\* a poetry project without a standard entry file, the prompt answered
C11_Witness ==
    /\ pc = "generate"
    /\ info.project_type = "poetry"
    /\ FindPythonEntry(tree) = None
    /\ info.entry_point = "start.py"
    /\ info.start_command = <<"python", "start.py">>

====
